---- MODULE Spec2Model ----
(***************************************************************************)
(* Model of the return/statistics derivation pipeline of                   *)
(* cardinal-finance-lab:                                                   *)
(*   process_stock_data.py         daily prices -> annual/quarterly        *)
(*                                 returns, stats, stock_data.json         *)
(*   create_comprehensive_data.py  index, bonds and rolling returns merged *)
(*                                 into comprehensive_stock_data.json      *)
(*   spy_prices.py                 concurrent fetch loop                   *)
(*                                                                         *)
(* Numbers.  Prices are integers.  A percentage is an integer number of    *)
(* hundredths of a percent (1000 is 10.00%), which is the grid that        *)
(* round(x, 2) produces; round is modelled as round-half-to-even on the    *)
(* exact quotient.                                                         *)
(* Labels.  str(year) is modelled by the year and f"{year}Q{quarter}" by   *)
(* the pair <<year, quarter>>; all years of the model have four digits, so *)
(* the order of the strings is the order of the numbers and of the pairs.  *)
(* None is the empty sequence and a present value v is <<v>>.              *)
(***************************************************************************)
EXTENDS Integers, Sequences, FiniteSets, TLC

VARIABLES
    \* ---- process_stock_data.py, the derivation functions called on a series
    prices,             \* the list passed to the calculate_* functions
    called,             \* the last function called: "nothing", "annual", "quarterly", "stats"
    annual_returns,     \* result of calculate_annual_returns(prices)
    quarterly_returns,  \* result of calculate_quarterly_returns(prices)
    stats,              \* result of calculate_stats(annual_returns)
    raised,             \* the exception that escaped a function, or "none"
    \* ---- create_comprehensive_data.py, calculate_rolling_returns called on a list
    returns_list,       \* the annual returns passed in
    rolling_data,       \* the mapping returned, <<>> before the call
    rolling_called,     \* whether the function has returned
    \* ---- process_stock_data.py, main
    main_pc,            \* "loop", "save", "done" or "crashed"
    ticker_idx,         \* position of the for loop in sorted(companies.items())
    main_stock_data,    \* main's dict stock_data
    processed,
    skipped,
    stock_data_json,    \* stock_data.json as main leaves it: None until written
    stats_arg,          \* <<the list main passed to calculate_stats>> for the ticker
                        \* just visited, None when the function was not called
    \* ---- spy_prices.py, the fetch loop
    fetch_pc,           \* "submit", "collect" or "done"
    fut,                \* per submitted ticker: "pending", "running", "finished"
    outcome,            \* per ticker: what its future holds once finished
    yielded,            \* the futures as_completed has handed to the loop
    results,            \* list of frames
    failures,           \* list of tickers
    \* ---- create_comprehensive_data.py, the script
    comp_pc,            \* the statement the script is at, "done" or "aborted"
    in_stock,           \* stock_data.json on disk: None when it cannot be loaded
    in_xls,             \* histretSP.xls: None when it cannot be loaded
    in_csv,             \* spreturns.csv: None when it cannot be loaded
    stock_data,         \* the dict being composed
    df_raw,             \* None until loaded, then <<rows>>
    df,                 \* None until loaded, then <<the frame>>
    sp_price_returns,
    sp_total_returns,
    sp_quarterly,
    sp_stats,
    bond_idx,           \* position of the loop over bond_types
    rolling_data_total,
    rolling_data_price,
    comprehensive_json  \* comprehensive_stock_data.json: None until written

deriveVars == <<prices, called, annual_returns, quarterly_returns, stats, raised>>
rollingVars == <<returns_list, rolling_data, rolling_called>>
mainVars == <<main_pc, ticker_idx, main_stock_data, processed, skipped, stock_data_json,
              stats_arg>>
fetchVars == <<fetch_pc, fut, outcome, yielded, results, failures>>
compInputs == <<in_stock, in_xls, in_csv>>
compVars == <<comp_pc, compInputs, stock_data, df_raw, df, sp_price_returns,
              sp_total_returns, sp_quarterly, sp_stats, bond_idx,
              rolling_data_total, rolling_data_price, comprehensive_json>>

vars == <<deriveVars, rollingVars, mainVars, fetchVars, compVars>>

\* ------------------------------------------------------------------ bounds
MaxLen == 3          \* longest price list handed to the derivation functions
MaxReturns == 10     \* longest annual-return list handed to calculate_rolling_returns
MaxRows == 3         \* most rows of the sheet 'S&P 500 & Raw Data'
MaxBondRows == 2     \* most rows of spreturns.csv

\* ----------------------------------------------------------------- numbers
\* round(a / b) for b > 0, ties to the even neighbour
RoundDiv(a, b) ==
    LET q == a \div b
        r == a % b
    IN  IF 2 * r < b THEN q
        ELSE IF 2 * r > b THEN q + 1
        ELSE IF q % 2 = 0 THEN q ELSE q + 1

RECURSIVE SumSeq(_)
SumSeq(s) == IF s = <<>> THEN 0 ELSE Head(s) + SumSeq(Tail(s))

MinSeq(s) == CHOOSE x \in {s[i] : i \in DOMAIN s} : \A j \in DOMAIN s : x <= s[j]
MaxSeq(s) == CHOOSE x \in {s[i] : i \in DOMAIN s} : \A j \in DOMAIN s : x >= s[j]

\* sorted(S) for a set of integers
RECURSIVE SortedInts(_)
SortedInts(S) ==
    IF S = {} THEN <<>>
    ELSE LET m == CHOOSE x \in S : \A y \in S : x <= y
         IN  <<m>> \o SortedInts(S \ {m})

\* order of the labels f"{year}Q{quarter}"
QuarterKeyLess(a, b) == a[1] < b[1] \/ (a[1] = b[1] /\ a[2] < b[2])

\* sorted(S) for a set of quarter labels
RECURSIVE SortedQuarters(_)
SortedQuarters(S) ==
    IF S = {} THEN <<>>
    ELSE LET m == CHOOSE x \in S : \A y \in S \ {x} : QuarterKeyLess(x, y)
         IN  <<m>> \o SortedQuarters(S \ {m})

\* ------------------------------------------- process_stock_data.py: deriver
YearOf(p) == p.date.year
QuarterOf(p) == ((p.date.month - 1) \div 3) + 1
QuarterKey(p) == <<YearOf(p), QuarterOf(p)>>

\* yearly_prices[y][-1]['close']: the close of the last list element of year y,
\* the first one met from the end of the list
LastCloseOfYear(ps, y) ==
    LET back == CHOOSE k \in 0..(Len(ps) - 1) :
                    /\ YearOf(ps[Len(ps) - k]) = y
                    /\ \A j \in 0..(k - 1) : YearOf(ps[Len(ps) - j]) # y
    IN  ps[Len(ps) - back].close

\* quarterly_prices[k][-1]['close']
LastCloseOfQuarter(ps, key) ==
    LET back == CHOOSE k \in 0..(Len(ps) - 1) :
                    /\ QuarterKey(ps[Len(ps) - k]) = key
                    /\ \A j \in 0..(k - 1) : QuarterKey(ps[Len(ps) - j]) # key
    IN  ps[Len(ps) - back].close

\* years = sorted(yearly_prices.keys())
\* (variant: list(yearly_prices.keys()), the years in order of first appearance)
RECURSIVE FirstAppearance(_, _)
FirstAppearance(ps, acc) ==
    IF ps = <<>> THEN acc
    ELSE FirstAppearance(Tail(ps),
             IF \E i \in DOMAIN acc : acc[i] = YearOf(Head(ps))
             THEN acc ELSE Append(acc, YearOf(Head(ps))))
YearsUnsorted(ps) == FirstAppearance(ps, <<>>)
Years(ps) == SortedInts({YearOf(ps[i]) : i \in DOMAIN ps})

\* quarters = sorted(quarterly_prices.keys())
Quarters(ps) == SortedQuarters({QuarterKey(ps[i]) : i \in DOMAIN ps})

\* the guard "if prev_price > 0" of both loops
\* (variants: the guard dropped; the guard written with >=)
PrevPriceUnguarded(prev_price) == TRUE
PrevPriceNonNegative(prev_price) == prev_price >= 0
PrevPriceUsable(prev_price) == prev_price > 0

\* round(((curr_price - prev_price) / prev_price) * 100, 2), in hundredths of a
\* percent; Python raises ZeroDivisionError on prev_price = 0, and a negative
\* prev_price divides as it stands
DividesByZero(prev_price) == prev_price = 0
PctReturn(prev_price, curr_price) ==
    IF prev_price > 0
    THEN RoundDiv(10000 * (curr_price - prev_price), prev_price)
    ELSE RoundDiv(10000 * (prev_price - curr_price), -prev_price)

\* the loop "for i in range(1, len(years))" from index i on, acc the list so far
RECURSIVE AnnualLoop(_, _, _, _)
AnnualLoop(ps, years, i, acc) ==
    IF i > Len(years) THEN [value |-> acc, raised |-> "none"]
    ELSE LET prev_price == LastCloseOfYear(ps, years[i - 1])
             curr_price == LastCloseOfYear(ps, years[i])
         IN  IF PrevPriceUsable(prev_price)
             THEN IF DividesByZero(prev_price)
                  THEN [value |-> <<>>, raised |-> "ZeroDivisionError"]
                  ELSE AnnualLoop(ps, years, i + 1,
                           Append(acc, [year |-> years[i],
                                        return |-> PctReturn(prev_price, curr_price)]))
             ELSE AnnualLoop(ps, years, i + 1, acc)

calculate_annual_returns(ps) ==
    IF ps = <<>> THEN [value |-> <<>>, raised |-> "none"]
    ELSE AnnualLoop(ps, Years(ps), 2, <<>>)

RECURSIVE QuarterlyLoop(_, _, _, _)
QuarterlyLoop(ps, quarters, i, acc) ==
    IF i > Len(quarters) THEN [value |-> acc, raised |-> "none"]
    ELSE LET prev_price == LastCloseOfQuarter(ps, quarters[i - 1])
             curr_price == LastCloseOfQuarter(ps, quarters[i])
         IN  IF PrevPriceUsable(prev_price)
             THEN IF DividesByZero(prev_price)
                  THEN [value |-> <<>>, raised |-> "ZeroDivisionError"]
                  ELSE QuarterlyLoop(ps, quarters, i + 1,
                           Append(acc, [quarter |-> quarters[i],
                                        return |-> PctReturn(prev_price, curr_price)]))
             ELSE QuarterlyLoop(ps, quarters, i + 1, acc)

calculate_quarterly_returns(ps) ==
    IF ps = <<>> THEN [value |-> <<>>, raised |-> "none"]
    ELSE QuarterlyLoop(ps, Quarters(ps), 2, <<>>)

\* ---------------------------------------- process_stock_data.py: summarizer
None == <<>>

RECURSIVE ISqrtBetween(_, _, _)
ISqrtBetween(n, lo, hi) ==
    IF lo >= hi THEN lo
    ELSE LET mid == (lo + hi + 1) \div 2
         IN  IF mid * mid <= n THEN ISqrtBetween(n, mid, hi)
             ELSE ISqrtBetween(n, lo, mid - 1)

\* floor(sqrt(n)) for 0 <= n < 46340^2
ISqrt(n) == ISqrtBetween(n, 0, 46340)

\* round(sqrt(a / b)) for a >= 0, b > 0
RoundSqrt(a, b) ==
    LET r == ISqrt(a \div b)
        half == b * (r * r + r)     \* a/b > (r + 1/2)^2  <=>  4a > 4*half + b
    IN  IF 4 * (a - half) > b THEN r + 1
        ELSE IF 4 * (a - half) < b THEN r
        ELSE IF r % 2 = 0 THEN r ELSE r + 1

\* returns = [r['return'] for r in annual_returns]
ReturnValues(ar) == [i \in DOMAIN ar |-> ar[i].return]

\* sum((r - mean) ** 2 for r in returns) * n, exactly: n * sum(r^2) - sum(r)^2
SquaredDeviationsTimesN(returns) ==
    Len(returns) * SumSeq([i \in DOMAIN returns |-> returns[i] * returns[i]])
        - SumSeq(returns) * SumSeq(returns)

StatsCount(returns) == Len(returns)

StatsRecord(returns) ==
    [mean   |-> RoundDiv(SumSeq(returns), Len(returns)),
     stdDev |-> RoundSqrt(SquaredDeviationsTimesN(returns),
                          Len(returns) * (Len(returns) - 1)),
     min    |-> MinSeq(returns),
     max    |-> MaxSeq(returns),
     count  |-> StatsCount(returns)]

\* Python floats: the division by len(returns) - 1 = 0 raises ZeroDivisionError
calculate_stats(ar) ==
    IF ar = <<>> THEN [value |-> None, raised |-> "none"]
    ELSE IF Len(ar) - 1 = 0 THEN [value |-> None, raised |-> "ZeroDivisionError"]
    ELSE [value |-> <<StatsRecord(ReturnValues(ar))>>, raised |-> "none"]

SeqsUpTo(S, n) == UNION {[1..k -> S] : k \in 0..n}

\* ------------------------- create_comprehensive_data.py: rolling returns
\* periods = [1, 5, 10, 20, 30]; the key f'period{W}' is modelled by W
periods == <<1, 5, 10, 20, 30>>

\* The annual returns of the model are -100%, 0% and +100%, so the growth
\* factor 1 + ret / 100 is 0, 1 or 2 and a product of factors is 0 or 2^k.
RollingReturnValues == {-10000, 0, 10000}
GrowthFactor(ret) == (10000 + ret) \div 10000

\* cumulative = 1.0; for ret in period_returns: cumulative *= (1 + ret / 100)
RECURSIVE Cumulative(_)
Cumulative(period_returns) ==
    IF period_returns = <<>> THEN 1
    ELSE GrowthFactor(Head(period_returns)) * Cumulative(Tail(period_returns))

\* round(10000 * 2^(j/10)) for j = 0..10
PowTwoTenths ==
    <<10000, 10718, 11487, 12311, 13195, 14142, 15157, 16245, 17411, 18661, 20000>>

RECURSIVE Log2(_)
Log2(c) == IF c <= 1 THEN 0 ELSE 1 + Log2(c \div 2)

\* 10000 * cumulative ** (1 / period), rounded, for cumulative = 0 or 2^k;
\* (10 * k) \div period is exact for the periods 1, 5 and 10, the only ones
\* with a window in a list of at most 19 returns
RootOfCumulative(cumulative, period) ==
    IF cumulative = 0 THEN 0
    ELSE PowTwoTenths[((10 * Log2(cumulative)) \div period) + 1]

\* round((cumulative ** (1 / period) - 1) * 100, 2); with period = 1 the
\* exponent is 1.0 and the value is the one return of the window, so any
\* return may stand there
Annualized(period_returns, period) ==
    IF period = 1 THEN period_returns[1]
    ELSE RootOfCumulative(Cumulative(period_returns), period) - 10000

\* the values i of "for i in range(period, len(returns_list) + 1)"
\* (variant: range(period, len(returns_list)))
WindowEndsShort(n, period) == period .. (n - 1)
WindowEnds(n, period) == period .. n

\* rolling_returns for one period: one value per i, in increasing i;
\* returns_list[i-period:i] is SubSeq(returns_list, i - period + 1, i)
RollingReturnsFor(rl, period) ==
    LET ends == WindowEnds(Len(rl), period)
    IN  [k \in 1..Cardinality(ends) |->
            Annualized(SubSeq(rl, k, k + period - 1), period)]

calculate_rolling_returns(rl, ps) ==
    [period \in {ps[i] : i \in DOMAIN ps} |-> RollingReturnsFor(rl, period)]

RollingIdle ==
    /\ returns_list = <<>>
    /\ rolling_data = <<>>
    /\ rolling_called = FALSE

DeriveIdle ==
    /\ prices = <<>>
    /\ called = "idle"
    /\ annual_returns = <<>>
    /\ quarterly_returns = <<>>
    /\ stats = None
    /\ raised = "none"

MainIdle ==
    /\ main_pc = "idle"
    /\ ticker_idx = 1
    /\ main_stock_data = <<>>
    /\ processed = 0
    /\ skipped = 0
    /\ stock_data_json = None
    /\ stats_arg = None

FetchIdle ==
    /\ fetch_pc = "idle"
    /\ fut = <<>>
    /\ outcome = <<>>
    /\ yielded = {}
    /\ results = <<>>
    /\ failures = <<>>

CompIdle ==
    /\ comp_pc = "idle"
    /\ in_stock = None
    /\ in_xls = None
    /\ in_csv = None
    /\ stock_data = <<>>
    /\ df_raw = None
    /\ df = None
    /\ sp_price_returns = <<>>
    /\ sp_total_returns = <<>>
    /\ sp_quarterly = <<>>
    /\ sp_stats = None
    /\ bond_idx = 1
    /\ rolling_data_total = <<>>
    /\ rolling_data_price = <<>>
    /\ comprehensive_json = None

RollingInit ==
    /\ returns_list \in SeqsUpTo(RollingReturnValues, MaxReturns)
    /\ rolling_data = <<>>
    /\ rolling_called = FALSE
    /\ DeriveIdle
    /\ MainIdle
    /\ FetchIdle
    /\ CompIdle

\* rolling_data = calculate_rolling_returns(returns_list, periods)
CallRollingReturns ==
    /\ ~rolling_called
    /\ rolling_data' = calculate_rolling_returns(returns_list, periods)
    /\ rolling_called' = TRUE
    /\ UNCHANGED <<returns_list, deriveVars, mainVars, fetchVars, compVars>>

RollingNext == CallRollingReturns

SpecRolling == RollingInit /\ [][RollingNext]_vars

\* ------------------------------------------------ process_stock_data.py: main
\* A data file is a list of blocks; a block stands for `rows` consecutive lines
\* of the file that share the date and the close (valid = FALSE: lines
\* that do not parse, which read_stock_data drops).  kind tells what the file
\* system holds: "missing" (no file matches), "empty" (next(f) raises
\* StopIteration), "unreadable" (the read raises), "data".
FileOf(kind, blocks) == [kind |-> kind, blocks |-> blocks]

DataBlocks ==
    {[k \in 1..n |->
         [date  |-> [year |-> 2019 + k, month |-> 12],
          close |-> IF k = 1 THEN first ELSE IF k = n THEN last ELSE 100,
          rows  |-> r,
          valid |-> (k > 1 \/ ok)]] :
       n \in 1..3, r \in {1, 126}, first \in {0, 100}, last \in {99, 110},
       ok \in BOOLEAN}

FileStates ==
    {FileOf(k, <<>>) : k \in {"missing", "empty", "unreadable"}}
        \cup {FileOf("data", b) : b \in DataBlocks}

\* find_stock_file(ticker): a path, or None when no pattern matches
find_stock_file(file) == IF file.kind = "missing" THEN None ELSE <<file>>

\* the rows of the blocks, in order
RECURSIVE BlockRows(_)
BlockRows(blocks) ==
    IF blocks = <<>> THEN <<>>
    ELSE [i \in 1..Head(blocks).rows |->
             [date |-> Head(blocks).date, close |-> Head(blocks).close]]
         \o BlockRows(Tail(blocks))

DateLess(a, b) == a.year < b.year \/ (a.year = b.year /\ a.month < b.month)

\* sorted(prices, key=date), stable; the rows of a block share their date, so
\* the blocks are sorted and then laid out
RECURSIVE SortBlocksByDate(_)
SortBlocksByDate(blocks) ==
    IF blocks = <<>> THEN <<>>
    ELSE LET i == CHOOSE i \in DOMAIN blocks :
                       /\ \A j \in DOMAIN blocks : ~DateLess(blocks[j].date, blocks[i].date)
                       /\ \A j \in 1..(i - 1) : DateLess(blocks[i].date, blocks[j].date)
         IN  <<blocks[i]>> \o
             SortBlocksByDate([j \in 1..(Len(blocks) - 1) |->
                                  IF j < i THEN blocks[j] ELSE blocks[j + 1]])

\* read_stock_data(filepath)
read_stock_data(file) ==
    IF file.kind = "empty" THEN [value |-> <<>>, raised |-> "StopIteration"]
    ELSE IF file.kind = "unreadable" THEN [value |-> <<>>, raised |-> "UnicodeDecodeError"]
    ELSE [value  |-> BlockRows(SortBlocksByDate(SelectSeq(file.blocks, LAMBDA b : b.valid))),
          raised |-> "none"]

\* the thresholds of main
MinDataPoints == 252
MinAnnualReturns == 2

\* "if len(annual_returns) < 2": too few annual returns for the statistics
\* (variant: only an empty list is too few)
TooFewAnnualReturnsEmptyOnly(ar) == Len(ar) < 1
TooFewAnnualReturns(ar) == Len(ar) < MinAnnualReturns

\* the record main stores for a ticker
StockRecord(info, ps, ar, qr, st) ==
    [name             |-> info.name,
     sector           |-> info.sector,
     annualReturns    |-> ar,
     quarterlyReturns |-> qr,
     stats            |-> st,
     dataPoints       |-> Len(ps),
     startYear        |-> ar[1].year,
     endYear          |-> ar[Len(ar)].year]

\* the body of the for loop for one ticker, up to what it decides:
\* outcome "not_found" | "insufficient_data" | "insufficient_annual" |
\* "processed" | "raised" (an exception left the try body)
ProcessTicker(info, file) ==
    LET read      == read_stock_data(file)
        annual    == calculate_annual_returns(read.value)
        quarterly == calculate_quarterly_returns(read.value)
        st        == calculate_stats(annual.value)
        Skip(why) == [outcome |-> why, raised |-> "none", record |-> None,
                      stats_arg |-> None]
        Raise(e)  == [outcome |-> "raised", raised |-> e, record |-> None,
                      stats_arg |-> None]
    IN  IF find_stock_file(file) = None THEN Skip("not_found")
        ELSE IF read.raised # "none" THEN Raise(read.raised)
        ELSE IF Len(read.value) < MinDataPoints THEN Skip("insufficient_data")
        ELSE IF annual.raised # "none" THEN Raise(annual.raised)
        ELSE IF quarterly.raised # "none" THEN Raise(quarterly.raised)
        ELSE IF TooFewAnnualReturns(annual.value) THEN Skip("insufficient_annual")
        ELSE IF st.raised # "none"
             THEN [Raise(st.raised) EXCEPT !.stats_arg = <<annual.value>>]
        ELSE [outcome |-> "processed", raised |-> "none",
              record  |-> <<StockRecord(info, read.value, annual.value,
                                        quarterly.value, st.value[1])>>,
              stats_arg |-> <<annual.value>>]

\* sorted(companies.items()), cut to four of the tickers main always adds
Tickers == <<"BAC", "GE", "SPY", "T">>
InfoOf(ticker) ==
    IF ticker = "SPY" THEN [name |-> "S&P 500 ETF", sector |-> "ETF"]
    ELSE [name |-> ticker, sector |-> "Historical"]

\* "except Exception" catches every exception the try body raises
\* (variant: except ValueError)
CatchesValueErrorOnly(e) == e = "ValueError"
Catches(e) == TRUE

\* d[key] = value: the value replaces whatever the key held
\* (variant: d[key].update(value) on a key that is present)
DictSetMerging(d, key, value) ==
    [k \in DOMAIN d \cup {key} |->
        IF k # key THEN d[k]
        ELSE IF key \notin DOMAIN d THEN value
        ELSE [f \in DOMAIN d[key] \cup DOMAIN value |->
                 IF f \in DOMAIN value THEN value[f] ELSE d[key][f]]]
DictSet(d, key, value) == [k \in DOMAIN d \cup {key} |-> IF k = key THEN value ELSE d[k]]

MainInit ==
    /\ main_pc = "loop"
    /\ ticker_idx = 1
    /\ main_stock_data = <<>>
    /\ processed = 0
    /\ skipped = 0
    /\ stock_data_json = None
    /\ stats_arg = None
    /\ DeriveIdle
    /\ RollingIdle
    /\ FetchIdle
    /\ CompIdle

InLoop == main_pc = "loop" /\ ticker_idx <= Len(Tickers)

\* "if not filepath: ... skipped += 1; continue"
TickerNotFound ==
    /\ InLoop
    /\ \E file \in FileStates :
          ProcessTicker(InfoOf(Tickers[ticker_idx]), file).outcome = "not_found"
    /\ stats_arg' = None
    /\ skipped' = skipped + 1
    /\ ticker_idx' = ticker_idx + 1
    /\ UNCHANGED <<main_pc, main_stock_data, processed, stock_data_json>>
    /\ UNCHANGED <<deriveVars, rollingVars, fetchVars, compVars>>

\* "if len(prices) < 252: ... skipped += 1; continue"
TickerInsufficientData ==
    /\ InLoop
    /\ \E file \in FileStates :
          ProcessTicker(InfoOf(Tickers[ticker_idx]), file).outcome = "insufficient_data"
    /\ stats_arg' = None
    /\ skipped' = skipped + 1
    /\ ticker_idx' = ticker_idx + 1
    /\ UNCHANGED <<main_pc, main_stock_data, processed, stock_data_json>>
    /\ UNCHANGED <<deriveVars, rollingVars, fetchVars, compVars>>

\* "if len(annual_returns) < 2: ... skipped += 1; continue"
TickerInsufficientAnnual ==
    /\ InLoop
    /\ \E file \in FileStates :
          ProcessTicker(InfoOf(Tickers[ticker_idx]), file).outcome = "insufficient_annual"
    /\ stats_arg' = None
    /\ skipped' = skipped + 1
    /\ ticker_idx' = ticker_idx + 1
    /\ UNCHANGED <<main_pc, main_stock_data, processed, stock_data_json>>
    /\ UNCHANGED <<deriveVars, rollingVars, fetchVars, compVars>>

\* "stock_data[ticker] = {...}; processed += 1"
TickerProcessed ==
    /\ InLoop
    /\ \E file \in FileStates :
          LET r == ProcessTicker(InfoOf(Tickers[ticker_idx]), file)
          IN  /\ r.outcome = "processed"
              /\ main_stock_data' = DictSet(main_stock_data, Tickers[ticker_idx], r.record[1])
              /\ stats_arg' = r.stats_arg
    /\ processed' = processed + 1
    /\ ticker_idx' = ticker_idx + 1
    /\ UNCHANGED <<main_pc, skipped, stock_data_json>>
    /\ UNCHANGED <<deriveVars, rollingVars, fetchVars, compVars>>

\* an exception in the try body: "except Exception as e: ... skipped += 1";
\* an exception the clause does not catch ends main
TickerRaised ==
    /\ InLoop
    /\ \E file \in FileStates :
          LET r == ProcessTicker(InfoOf(Tickers[ticker_idx]), file)
          IN  /\ r.outcome = "raised"
              /\ stats_arg' = r.stats_arg
              /\ IF Catches(r.raised)
                 THEN /\ skipped' = skipped + 1
                      /\ ticker_idx' = ticker_idx + 1
                      /\ main_pc' = main_pc
                 ELSE /\ main_pc' = "crashed"
                      /\ UNCHANGED <<skipped, ticker_idx>>
    /\ UNCHANGED <<main_stock_data, processed, stock_data_json>>
    /\ UNCHANGED <<deriveVars, rollingVars, fetchVars, compVars>>

\* the loop is over: "with open(OUTPUT_JSON, 'w') as f: json.dump(stock_data, f)"
SaveStockData ==
    /\ main_pc = "loop"
    /\ ticker_idx > Len(Tickers)
    /\ stock_data_json' = <<main_stock_data>>
    /\ main_pc' = "done"
    /\ UNCHANGED <<ticker_idx, main_stock_data, processed, skipped, stats_arg>>
    /\ UNCHANGED <<deriveVars, rollingVars, fetchVars, compVars>>

MainNext ==
    \/ TickerNotFound
    \/ TickerInsufficientData
    \/ TickerInsufficientAnnual
    \/ TickerProcessed
    \/ TickerRaised
    \/ SaveStockData

SpecMain == MainInit /\ [][MainNext]_vars

\* ------------------------------------------------- spy_prices.py: fetch loop
\* tickers_all = extra + tickers, with two symbols of the CSV; the symbols of
\* the list are distinct
tickers_all == <<"^SPX", "BND", "AAA", "BBB">>

max_workers == 12

\* What the quote provider answers for a symbol: an HTTP error
\* (raise_for_status raises), or the daily closes parsed from the CSV body,
\* here one close per calendar year, sorted by date and free of NaN.
Responses ==
    {[status |-> "error", close |-> <<>>]}
        \cup {[status |-> "ok", close |-> c] :
                c \in {<<>>,
                       <<[year |-> 2020, close |-> 100]>>,
                       <<[year |-> 2020, close |-> 100], [year |-> 2021, close |-> 110]>>}}

\* stooq_daily_close(stooq_symbol)
stooq_daily_close(response) ==
    IF response.status = "error" THEN [value |-> <<>>, raised |-> "HTTPError"]
    ELSE [value |-> response.close, raised |-> "none"]

\* annual_returns_from_close(close): year-end closes, pct_change, dropna; the
\* fraction (curr - prev) / prev is kept exact as numerator and denominator
annual_returns_from_close(close) ==
    [i \in 1..(Len(close) - 1) |->
        [year  |-> close[i + 1].year,
         value |-> [num |-> close[i + 1].close - close[i].close, den |-> close[i].close]]]

\* process_ticker(ticker): the frame, a list of rows, or the exception raised
process_ticker(ticker, response) ==
    LET close == stooq_daily_close(response)
        ann   == annual_returns_from_close(close.value)
    IN  IF close.raised # "none" THEN [frame |-> <<>>, raised |-> close.raised]
        ELSE IF close.value = <<>> THEN [frame |-> <<>>, raised |-> "none"]
        ELSE [frame  |-> [i \in DOMAIN ann |->
                            [ticker |-> ticker, year |-> ann[i].year,
                             annual_return |-> ann[i].value]],
              raised |-> "none"]

\* df.empty
FrameEmpty(frame) == frame = <<>>

\* what the body of "for fut in as_completed(futs)" does with a future:
\* "failures" when fut.result() raises or the frame is empty, else "results"
\* (variant: only a raising future counts as a failure)
RecordsFailureOnRaiseOnly(o) == o.raised # "none"
RecordsFailure(o) == o.raised # "none" \/ FrameEmpty(o.frame)

FetchInit ==
    /\ fetch_pc = "submit"
    /\ fut = <<>>
    /\ outcome = <<>>
    /\ yielded = {}
    /\ results = <<>>
    /\ failures = <<>>
    /\ DeriveIdle
    /\ RollingIdle
    /\ MainIdle
    /\ CompIdle

Running == {i \in DOMAIN fut : fut[i] = "running"}

\* ex.submit(process_ticker, t) for the next ticker of tickers_all
Submit ==
    /\ fetch_pc = "submit"
    /\ Len(fut) < Len(tickers_all)
    /\ fut' = Append(fut, "pending")
    /\ outcome' = Append(outcome, None)
    /\ UNCHANGED <<fetch_pc, yielded, results, failures>>
    /\ UNCHANGED <<deriveVars, rollingVars, mainVars, compVars>>

\* the dict of futures is built: as_completed(futs) starts
StartCollecting ==
    /\ fetch_pc = "submit"
    /\ Len(fut) = Len(tickers_all)
    /\ fetch_pc' = "collect"
    /\ UNCHANGED <<fut, outcome, yielded, results, failures>>
    /\ UNCHANGED <<deriveVars, rollingVars, mainVars, compVars>>

\* a free worker of the pool takes a pending call
WorkerStart(i) ==
    /\ fut[i] = "pending"
    /\ Cardinality(Running) < max_workers
    /\ fut' = [fut EXCEPT ![i] = "running"]
    /\ UNCHANGED <<fetch_pc, outcome, yielded, results, failures>>
    /\ UNCHANGED <<deriveVars, rollingVars, mainVars, compVars>>

\* the worker's call of process_ticker returns or raises
WorkerFinish(i) ==
    /\ fut[i] = "running"
    /\ \E response \in Responses :
          outcome' = [outcome EXCEPT ![i] = <<process_ticker(tickers_all[i], response)>>]
    /\ fut' = [fut EXCEPT ![i] = "finished"]
    /\ UNCHANGED <<fetch_pc, yielded, results, failures>>
    /\ UNCHANGED <<deriveVars, rollingVars, mainVars, compVars>>

\* one turn of "for fut in as_completed(futs)": a finished future not yet
\* handed out, in any order of completion
Collect(i) ==
    /\ fetch_pc = "collect"
    /\ fut[i] = "finished"
    /\ i \notin yielded
    /\ yielded' = yielded \cup {i}
    /\ IF RecordsFailure(outcome[i][1])
       THEN /\ failures' = Append(failures, tickers_all[i])
            /\ results' = results
       ELSE /\ results' = Append(results, outcome[i][1].frame)
            /\ failures' = failures
    /\ UNCHANGED <<fetch_pc, fut, outcome>>
    /\ UNCHANGED <<deriveVars, rollingVars, mainVars, compVars>>

\* as_completed is exhausted and the with block ends; the pool has drained
PoolDrained ==
    /\ fetch_pc = "collect"
    /\ yielded = DOMAIN fut
    /\ fetch_pc' = "done"
    /\ UNCHANGED <<fut, outcome, yielded, results, failures>>
    /\ UNCHANGED <<deriveVars, rollingVars, mainVars, compVars>>

FetchNext ==
    \/ Submit
    \/ StartCollecting
    \/ \E i \in DOMAIN fut : WorkerStart(i)
    \/ \E i \in DOMAIN fut : WorkerFinish(i)
    \/ \E i \in DOMAIN fut : Collect(i)
    \/ PoolDrained

SpecFetch == FetchInit /\ [][FetchNext]_vars

\* --------------------------------- create_comprehensive_data.py: the script
\* float('nan'), which numpy arithmetic yields for 0.0 / 0
NaN == -999999999

\* The sheet 'S&P 500 & Raw Data' after skiprows: rows of consecutive years;
\* SP500 is None for an empty cell (NaN), Dividends is 5.
XlsSheets ==
    UNION {{[i \in 1..n |-> [Year |-> start + i - 1, SP500 |-> level[i], Dividends |-> 5]] :
               start \in {1927, 1928}, level \in [1..n -> {None, <<100>>, <<110>>}]} :
           n \in 0..MaxRows}

\* spreturns.csv: the columns present and the rows; a cell is a fraction in
\* millionths (30812 is 0.030812)
BondColumns == {"3-month T.Bill", "US T. Bond (10-year)", " Baa Corporate Bond"}
CsvRow(year, v) ==
    [Date |-> year,
     cells |-> [c \in BondColumns |->
                   IF c = "3-month T.Bill" THEN v
                   ELSE IF c = "US T. Bond (10-year)" THEN v + 10000 ELSE v + 20050]]
CsvFrames ==
    UNION {{[columns |-> cols, rows |-> [i \in 1..n |-> CsvRow(1927 + i, v[i])]] :
               cols \in {BondColumns, BondColumns \ {" Baa Corporate Bond"}},
               v \in [1..n -> {30812, -1050}]} :
           n \in 0..MaxBondRows}

\* stock_data.json as an earlier run of main, or an earlier edit, left it:
\* records of the shape main writes, also under keys this script inserts
LoadedRecord(ticker) ==
    ProcessTicker(InfoOf(ticker),
        FileOf("data",
            [k \in 1..3 |-> [date  |-> [year |-> 2019 + k, month |-> 12],
                             close |-> IF ticker = "GE" THEN 100 + k ELSE 100 + 10 * k,
                             rows  |-> 126, valid |-> TRUE]])).record[1]
LoadedKeys == {"GE", "SPX", "TBILL", "_ROLLING_RETURNS_"}
LoadedDatasets ==
    {[k \in keys |-> LoadedRecord(k)] : keys \in SUBSET LoadedKeys}

\* df_raw[df_raw['Year'].notna() & (df_raw['Year'] >= 1928)].dropna(subset=['SP500'])
FilterRaw(rows) == SelectSeq(rows, LAMBDA r : r.Year >= 1928 /\ r.SP500 # None)

\* the loop "for i in range(1, len(df_raw))": price-only and total returns
PriceReturns(rows) ==
    [i \in 1..(Len(rows) - 1) |->
        [year   |-> rows[i + 1].Year,
         return |-> RoundDiv(10000 * (rows[i + 1].SP500[1] - rows[i].SP500[1]),
                             rows[i].SP500[1])]]
TotalReturns(rows) ==
    [i \in 1..(Len(rows) - 1) |->
        [year   |-> rows[i + 1].Year,
         return |-> RoundDiv(10000 * (rows[i + 1].SP500[1] - rows[i].SP500[1]
                                         + rows[i + 1].Dividends),
                             rows[i].SP500[1])]]

\* the years the quarterly loop covers: "for i in range(1, len(returns))"
\* (variant: every index, range(len(returns)))
QuarterlyIndicesAll(returns) == 1 .. Len(returns)
QuarterlyIndices(returns) == 2 .. Len(returns)

\* four points per covered year, each round(annual_ret / 4, 2)
QuarterlyFromAnnual(returns) ==
    LET idx == QuarterlyIndices(returns)
        first == IF idx = {} THEN 0 ELSE CHOOSE i \in idx : \A j \in idx : i <= j
    IN  [k \in 1..(4 * Cardinality(idx)) |->
            LET i == first + ((k - 1) \div 4)
                q == ((k - 1) % 4) + 1
            IN  [quarter |-> <<returns[i].year, q>>,
                 return  |-> RoundDiv(returns[i].return, 4)]]

\* the statistics the script computes in line, for len(values) >= 1;
\* with one value the variance is 0.0 / 0: nan under numpy
InlineStats(values) ==
    [mean   |-> RoundDiv(SumSeq(values), Len(values)),
     stdDev |-> IF Len(values) = 1 THEN NaN
                ELSE RoundSqrt(SquaredDeviationsTimesN(values),
                               Len(values) * (Len(values) - 1)),
     min    |-> MinSeq(values),
     max    |-> MaxSeq(values),
     count  |-> Len(values)]

\* the record stored for the index and for a bond
InstrumentRecord(name, sector, returns, quarterly, st) ==
    [name             |-> name,
     sector           |-> sector,
     annualReturns    |-> returns,
     quarterlyReturns |-> quarterly,
     stats            |-> st,
     dataPoints       |-> Len(returns),
     startYear        |-> returns[1].year,
     endYear          |-> returns[Len(returns)].year]

bond_types ==
    <<[col |-> "3-month T.Bill", ticker |-> "TBILL", full_name |-> "3-Month Treasury Bill"],
      [col |-> "US T. Bond (10-year)", ticker |-> "TBOND10", full_name |-> "10-Year Treasury Bond"],
      [col |-> " Baa Corporate Bond", ticker |-> "BAACORP", full_name |-> "Baa Corporate Bond"]>>

\* returns of one bond: round(row[col_name] * 100, 2) per row
BondReturns(frame, col) ==
    [i \in DOMAIN frame.rows |->
        [year |-> frame.rows[i].Date, return |-> RoundDiv(frame.rows[i].cells[col], 100)]]

RollingRecord(total, price, returns) ==
    [name             |-> "S&P 500 Rolling Returns",
     description      |-> "Pre-calculated rolling returns for S&P 500",
     periods          |-> total,
     periodsTotal     |-> total,
     periodsPriceOnly |-> price,
     startYear        |-> returns[1].year,
     endYear          |-> returns[Len(returns)].year]

\* d[key][field] = value
DictSetField(d, key, field, value) ==
    [d EXCEPT ![key] = [f \in DOMAIN d[key] \cup {field} |->
                           IF f = field THEN value ELSE d[key][f]]]

\* The script has no try: an exception ends it at the statement that raised.
\* (variant: the dump runs regardless, as in a finally clause)
OnExceptionStillDumps == "write"
OnException == "aborted"

CompInit ==
    /\ comp_pc = "load_stock"
    /\ in_stock \in {None} \cup {<<d>> : d \in LoadedDatasets}
    /\ in_xls \in {None} \cup {<<x>> : x \in XlsSheets}
    /\ in_csv \in {None} \cup {<<c>> : c \in CsvFrames}
    /\ stock_data = <<>>
    /\ df_raw = None
    /\ df = None
    /\ sp_price_returns = <<>>
    /\ sp_total_returns = <<>>
    /\ sp_quarterly = <<>>
    /\ sp_stats = None
    /\ bond_idx = 1
    /\ rolling_data_total = <<>>
    /\ rolling_data_price = <<>>
    /\ comprehensive_json = None
    /\ DeriveIdle
    /\ RollingIdle
    /\ MainIdle
    /\ FetchIdle

otherVars == <<deriveVars, rollingVars, mainVars, fetchVars>>

\* lines 11-12: stock_data = json.load(f)
LoadStockData ==
    /\ comp_pc = "load_stock"
    /\ IF in_stock = None
       THEN comp_pc' = OnException /\ UNCHANGED stock_data
       ELSE comp_pc' = "load_xls" /\ stock_data' = in_stock[1]
    /\ UNCHANGED <<compInputs, df_raw, df, sp_price_returns, sp_total_returns,
                   sp_quarterly, sp_stats, bond_idx, rolling_data_total,
                   rolling_data_price, comprehensive_json, otherVars>>

\* lines 18-22: df_raw = pd.read_excel(...), filtered
LoadRawData ==
    /\ comp_pc = "load_xls"
    /\ IF in_xls = None
       THEN comp_pc' = OnException /\ UNCHANGED df_raw
       ELSE comp_pc' = "sp_returns" /\ df_raw' = <<FilterRaw(in_xls[1])>>
    /\ UNCHANGED <<compInputs, stock_data, df, sp_price_returns, sp_total_returns,
                   sp_quarterly, sp_stats, bond_idx, rolling_data_total,
                   rolling_data_price, comprehensive_json, otherVars>>

\* lines 25-46: the two return lists
ComputeSpReturns ==
    /\ comp_pc = "sp_returns"
    /\ sp_price_returns' = PriceReturns(df_raw[1])
    /\ sp_total_returns' = TotalReturns(df_raw[1])
    /\ comp_pc' = "load_csv"
    /\ UNCHANGED <<compInputs, stock_data, df_raw, df, sp_quarterly, sp_stats,
                   bond_idx, rolling_data_total, rolling_data_price,
                   comprehensive_json, otherVars>>

\* line 53: df = pd.read_csv('spreturns.csv')
LoadBondCsv ==
    /\ comp_pc = "load_csv"
    /\ IF in_csv = None
       THEN comp_pc' = OnException /\ UNCHANGED df
       ELSE comp_pc' = "sp_quarterly" /\ df' = in_csv
    /\ UNCHANGED <<compInputs, stock_data, df_raw, sp_price_returns, sp_total_returns,
                   sp_quarterly, sp_stats, bond_idx, rolling_data_total,
                   rolling_data_price, comprehensive_json, otherVars>>

\* lines 56-83: sp_returns = sp_total_returns; sp_quarterly
ComputeSpQuarterly ==
    /\ comp_pc = "sp_quarterly"
    /\ sp_quarterly' = QuarterlyFromAnnual(sp_total_returns)
    /\ comp_pc' = "sp_stats"
    /\ UNCHANGED <<compInputs, stock_data, df_raw, df, sp_price_returns,
                   sp_total_returns, sp_stats, bond_idx, rolling_data_total,
                   rolling_data_price, comprehensive_json, otherVars>>

\* lines 86-97: sp_stats.  No return: sum([]) / 0 raises ZeroDivisionError.
\* One return: 0.0 / 0 is nan for numpy floats and raises for Python floats;
\* which of the two the cells are depends on the sheet's dtypes, so either.
ComputeSpStats ==
    /\ comp_pc = "sp_stats"
    /\ \E numpy \in BOOLEAN :
          IF Len(sp_total_returns) = 0 \/ (Len(sp_total_returns) = 1 /\ ~numpy)
          THEN comp_pc' = OnException /\ UNCHANGED sp_stats
          ELSE /\ comp_pc' = "insert_spx"
               /\ sp_stats' = <<InlineStats(ReturnValues(sp_total_returns))>>
    /\ UNCHANGED <<compInputs, stock_data, df_raw, df, sp_price_returns,
                   sp_total_returns, sp_quarterly, bond_idx, rolling_data_total,
                   rolling_data_price, comprehensive_json, otherVars>>

\* lines 100-109: stock_data['SPX'] = {...}
InsertSpx ==
    /\ comp_pc = "insert_spx"
    /\ stock_data' = DictSet(stock_data, "SPX",
                         InstrumentRecord("S&P 500 Index", "Market Index",
                             sp_total_returns, sp_quarterly, sp_stats[1]))
    /\ comp_pc' = "bonds"
    /\ UNCHANGED <<compInputs, df_raw, df, sp_price_returns, sp_total_returns,
                   sp_quarterly, sp_stats, bond_idx, rolling_data_total,
                   rolling_data_price, comprehensive_json, otherVars>>

\* lines 120-168, one turn of the loop over bond_types.  With rows, a column
\* the frame lacks raises KeyError; without rows, and with one row of Python
\* floats, the statistics raise ZeroDivisionError.
AddBond ==
    /\ comp_pc = "bonds"
    /\ bond_idx <= Len(bond_types)
    /\ LET bond    == bond_types[bond_idx]
           frame   == df[1]
           raises(numpy) ==
               \/ frame.rows # <<>> /\ bond.col \notin frame.columns
               \/ frame.rows = <<>>
               \/ Len(frame.rows) = 1 /\ ~numpy
       IN  \E numpy \in BOOLEAN :
              IF raises(numpy)
              THEN comp_pc' = OnException /\ UNCHANGED <<stock_data, bond_idx>>
              ELSE LET returns == BondReturns(frame, bond.col)
                   IN  /\ stock_data' = DictSet(stock_data, bond.ticker,
                              InstrumentRecord(bond.full_name, "Fixed Income", returns,
                                  QuarterlyFromAnnual(returns),
                                  InlineStats(ReturnValues(returns))))
                       /\ bond_idx' = bond_idx + 1
                       /\ comp_pc' = comp_pc
    /\ UNCHANGED <<compInputs, df_raw, df, sp_price_returns, sp_total_returns,
                   sp_quarterly, sp_stats, rolling_data_total, rolling_data_price,
                   comprehensive_json, otherVars>>

\* lines 188-205: the two rolling sets
ComputeRolling ==
    /\ comp_pc = "bonds"
    /\ bond_idx > Len(bond_types)
    /\ rolling_data_total' =
          calculate_rolling_returns(ReturnValues(sp_total_returns), periods)
    /\ rolling_data_price' =
          calculate_rolling_returns(ReturnValues(sp_price_returns), periods)
    /\ comp_pc' = "insert_rolling"
    /\ UNCHANGED <<compInputs, stock_data, df_raw, df, sp_price_returns,
                   sp_total_returns, sp_quarterly, sp_stats, bond_idx,
                   comprehensive_json, otherVars>>

\* lines 208-216: stock_data['_ROLLING_RETURNS_'] = {...}
InsertRolling ==
    /\ comp_pc = "insert_rolling"
    /\ stock_data' = DictSet(stock_data, "_ROLLING_RETURNS_",
                         RollingRecord(rolling_data_total, rolling_data_price,
                                       sp_total_returns))
    /\ comp_pc' = "price_only"
    /\ UNCHANGED <<compInputs, df_raw, df, sp_price_returns, sp_total_returns,
                   sp_quarterly, sp_stats, bond_idx, rolling_data_total,
                   rolling_data_price, comprehensive_json, otherVars>>

\* line 219: stock_data['SPX']['annualReturnsPriceOnly'] = sp_price_returns
AddPriceOnly ==
    /\ comp_pc = "price_only"
    /\ stock_data' = DictSetField(stock_data, "SPX", "annualReturnsPriceOnly",
                                  sp_price_returns)
    /\ comp_pc' = "write"
    /\ UNCHANGED <<compInputs, df_raw, df, sp_price_returns, sp_total_returns,
                   sp_quarterly, sp_stats, bond_idx, rolling_data_total,
                   rolling_data_price, comprehensive_json, otherVars>>

\* lines 222-224: json.dump(stock_data, f)
SaveComprehensive ==
    /\ comp_pc = "write"
    /\ comprehensive_json' = <<stock_data>>
    /\ comp_pc' = "done"
    /\ UNCHANGED <<compInputs, stock_data, df_raw, df, sp_price_returns,
                   sp_total_returns, sp_quarterly, sp_stats, bond_idx,
                   rolling_data_total, rolling_data_price, otherVars>>

CompNext ==
    \/ LoadStockData
    \/ LoadRawData
    \/ ComputeSpReturns
    \/ LoadBondCsv
    \/ ComputeSpQuarterly
    \/ ComputeSpStats
    \/ InsertSpx
    \/ AddBond
    \/ ComputeRolling
    \/ InsertRolling
    \/ AddPriceOnly
    \/ SaveComprehensive

SpecCompose == CompInit /\ [][CompNext]_vars

\* ------------------------------------------------ the derivation, as called
\* The price lists handed to the functions: any order, any closes a file can
\* hold (float(parts[7]) accepts zero and negative numbers).
PriceYears == {2020, 2021, 2022}
PriceMonths == {3, 12}
PriceCloses == {-5, 0, 100, 110}
PricePoints ==
    {[date |-> [year |-> y, month |-> m], close |-> c] :
        y \in PriceYears, m \in PriceMonths, c \in PriceCloses}

DeriveInit ==
    /\ prices \in SeqsUpTo(PricePoints, MaxLen)
    /\ called = "nothing"
    /\ annual_returns = <<>>
    /\ quarterly_returns = <<>>
    /\ stats = None
    /\ raised = "none"
    /\ RollingIdle
    /\ MainIdle
    /\ FetchIdle
    /\ CompIdle

\* annual_returns = calculate_annual_returns(prices)
CallAnnualReturns ==
    /\ called = "nothing"
    /\ LET r == calculate_annual_returns(prices)
       IN  /\ annual_returns' = r.value
           /\ raised' = r.raised
    /\ called' = "annual"
    /\ UNCHANGED <<prices, quarterly_returns, stats, rollingVars, mainVars, fetchVars, compVars>>

\* quarterly_returns = calculate_quarterly_returns(prices)
CallQuarterlyReturns ==
    /\ called = "annual"
    /\ raised = "none"
    /\ LET r == calculate_quarterly_returns(prices)
       IN  /\ quarterly_returns' = r.value
           /\ raised' = r.raised
    /\ called' = "quarterly"
    /\ UNCHANGED <<prices, annual_returns, stats, rollingVars, mainVars, fetchVars, compVars>>

\* stats = calculate_stats(annual_returns)
CallStats ==
    /\ called = "quarterly"
    /\ raised = "none"
    /\ LET r == calculate_stats(annual_returns)
       IN  /\ stats' = r.value
           /\ raised' = r.raised
    /\ called' = "stats"
    /\ UNCHANGED <<prices, annual_returns, quarterly_returns, rollingVars, mainVars, fetchVars, compVars>>

DeriveNext == CallAnnualReturns \/ CallQuarterlyReturns \/ CallStats

SpecDerive == DeriveInit /\ [][DeriveNext]_vars

\* ------------------------------------- the three programs side by side
\* a behaviour is one run of the derivation functions, of main, or of the
\* composing script
SpecStats ==
    (DeriveInit \/ MainInit \/ CompInit) /\ [][DeriveNext \/ MainNext \/ CompNext]_vars

\* --------------------------------------------- properties of the derivation
\* what the statements below say about a price list, stated on the list itself
DistinctYears(ps) == {ps[i].date.year : i \in DOMAIN ps}
DistinctQuarters(ps) ==
    {<<ps[i].date.year, ((ps[i].date.month - 1) \div 3) + 1>> : i \in DOMAIN ps}
YearEndClose(ps, y) ==
    LET last == CHOOSE i \in DOMAIN ps :
                    /\ ps[i].date.year = y
                    /\ \A j \in DOMAIN ps : j > i => ps[j].date.year # y
    IN  ps[last].close
QuarterEndClose(ps, k) ==
    LET in(i) == ps[i].date.year = k[1] /\ ((ps[i].date.month - 1) \div 3) + 1 = k[2]
        last == CHOOSE i \in DOMAIN ps : in(i) /\ \A j \in DOMAIN ps : j > i => ~in(j)
    IN  ps[last].close
\* y2 directly follows y1 among the years present
NextYear(ps, y1, y2) ==
    /\ y1 \in DistinctYears(ps) /\ y2 \in DistinctYears(ps) /\ y1 < y2
    /\ \A y \in DistinctYears(ps) : ~(y1 < y /\ y < y2)
QuarterBefore(a, b) == a[1] < b[1] \/ (a[1] = b[1] /\ a[2] < b[2])
NextQuarter(ps, k1, k2) ==
    /\ k1 \in DistinctQuarters(ps) /\ k2 \in DistinctQuarters(ps) /\ QuarterBefore(k1, k2)
    /\ \A k \in DistinctQuarters(ps) : ~(QuarterBefore(k1, k) /\ QuarterBefore(k, k2))
YearTransitions(ps) ==
    {t \in DistinctYears(ps) \X DistinctYears(ps) : NextYear(ps, t[1], t[2])}
QuarterTransitions(ps) ==
    {t \in DistinctQuarters(ps) \X DistinctQuarters(ps) : NextQuarter(ps, t[1], t[2])}
AnnualDone == called \in {"annual", "quarterly", "stats"}
QuarterlyDone == called \in {"quarterly", "stats"}

\* C1 (as stated): for every non-empty price list, the number of annual return
\* points equals the number of distinct calendar years in the list minus one.
C1_CountIsYearsMinusOne ==
    (AnnualDone /\ prices # <<>>) =>
        Len(annual_returns) = Cardinality(DistinctYears(prices)) - 1

\* C1 (amended): the number of annual return points equals the number of
\* distinct years minus one, minus the number of year-to-year transitions
\* whose earlier year ends on a close <= 0; with every year-end close positive
\* it is the number of distinct years minus one.
C1_CountIsUsableTransitions ==
    (AnnualDone /\ prices # <<>>) =>
        /\ Len(annual_returns) =
              (Cardinality(DistinctYears(prices)) - 1)
              - Cardinality({t \in YearTransitions(prices) :
                                YearEndClose(prices, t[1]) <= 0})
        /\ (\A y \in DistinctYears(prices) : YearEndClose(prices, y) > 0)
              => Len(annual_returns) = Cardinality(DistinctYears(prices)) - 1

C1_Witness ==
    /\ AnnualDone
    /\ Cardinality(DistinctYears(prices)) = 3
    /\ \E t \in YearTransitions(prices) : YearEndClose(prices, t[1]) <= 0
    /\ Len(annual_returns) = 1

\* C2: a year or quarter transition whose earlier period ends on a close <= 0
\* contributes no return point, neither function raises, and every other
\* transition still contributes its return point.
C2_NonPositivePriorSkipped ==
    /\ AnnualDone =>
          \A t \in YearTransitions(prices) :
              LET points == {i \in DOMAIN annual_returns : annual_returns[i].year = t[2]}
                  prev == YearEndClose(prices, t[1])
                  curr == YearEndClose(prices, t[2])
              IN  IF prev <= 0 THEN points = {}
                  ELSE /\ Cardinality(points) = 1
                       /\ \A i \in points :
                              annual_returns[i].return = RoundDiv(10000 * (curr - prev), prev)
    /\ QuarterlyDone =>
          \A t \in QuarterTransitions(prices) :
              LET points == {i \in DOMAIN quarterly_returns :
                                quarterly_returns[i].quarter = t[2]}
                  prev == QuarterEndClose(prices, t[1])
                  curr == QuarterEndClose(prices, t[2])
              IN  IF prev <= 0 THEN points = {}
                  ELSE /\ Cardinality(points) = 1
                       /\ \A i \in points :
                              quarterly_returns[i].return = RoundDiv(10000 * (curr - prev), prev)
    /\ called \in {"annual", "quarterly"} => raised = "none"

C2_Witness ==
    /\ called = "quarterly"
    /\ \E t \in YearTransitions(prices) : YearEndClose(prices, t[1]) <= 0
    /\ \E t \in QuarterTransitions(prices) : QuarterEndClose(prices, t[1]) <= 0
    /\ annual_returns # <<>>
    /\ quarterly_returns # <<>>

\* C7: the annual and the quarterly return sequences are strictly ascending by
\* period label, hence free of duplicate periods, whatever the order of the
\* price list.
C7_PeriodsStrictlyAscending ==
    /\ AnnualDone =>
          \A i, j \in DOMAIN annual_returns :
              i < j => annual_returns[i].year < annual_returns[j].year
    /\ QuarterlyDone =>
          \A i, j \in DOMAIN quarterly_returns :
              i < j => QuarterBefore(quarterly_returns[i].quarter,
                                     quarterly_returns[j].quarter)

C7_Witness ==
    /\ QuarterlyDone
    /\ Len(annual_returns) >= 2
    /\ Len(quarterly_returns) >= 2
    /\ \E i, j \in DOMAIN prices : i < j /\ prices[i].date.year > prices[j].date.year

\* ------------------------------------------- properties of rolling returns
Max0(x) == IF x > 0 THEN x ELSE 0

C8_EveryTickerCountedOnce ==
    /\ main_pc # "crashed"
    /\ main_pc = "loop" =>
          /\ processed + skipped = ticker_idx - 1
          /\ Cardinality(DOMAIN main_stock_data) = processed
          /\ DOMAIN main_stock_data \subseteq {Tickers[i] : i \in 1..(ticker_idx - 1)}
    /\ main_pc = "done" =>
          /\ processed + skipped = Len(Tickers)
          /\ Cardinality(DOMAIN main_stock_data) = processed
          /\ stock_data_json = <<main_stock_data>>

C8_Witness ==
    /\ main_pc = "done"
    /\ processed = 2
    /\ skipped = 2
    /\ DOMAIN main_stock_data = {"GE", "T"}

\* ------------------------------------------------ properties of the fetch loop
\* the fetch of ticker i failed: it raised or brought no data
FetchFailed(i) == outcome[i][1].raised # "none" \/ outcome[i][1].frame = <<>>
TimesInFailures(t) == Cardinality({k \in DOMAIN failures : failures[k] = t})
FramesOf(t) ==
    {k \in DOMAIN results :
        results[k] # <<>> /\ \A r \in DOMAIN results[k] : results[k][r].ticker = t}
AccountedOnce(i) ==
    IF FetchFailed(i)
    THEN TimesInFailures(tickers_all[i]) = 1 /\ FramesOf(tickers_all[i]) = {}
    ELSE TimesInFailures(tickers_all[i]) = 0 /\ Cardinality(FramesOf(tickers_all[i])) = 1

\* C9 (state part): every future the loop has handled is accounted for exactly
\* once, in failures when its fetch raised or was empty and in results
\* otherwise, never both; and once the pool has
\* drained this holds of every submitted ticker.
C9_Accounted ==
    /\ \A i \in yielded : AccountedOnce(i)
    /\ Len(results) + Len(failures) = Cardinality(yielded)
    /\ \A k \in DOMAIN results : results[k] # <<>>
    /\ fetch_pc = "done" =>
          /\ DOMAIN fut = DOMAIN tickers_all
          /\ \A i \in DOMAIN tickers_all : AccountedOnce(i)

\* C9: for any interleaving and any set of failing tickers, a failing ticker is
\* recorded in failures without cancelling or altering a sibling's future, and
\* every submitted ticker ends up accounted for exactly once.
C9_FailuresIsolated ==
    /\ []C9_Accounted
    /\ [][failures' # failures =>
            /\ fut' = fut
            /\ outcome' = outcome
            /\ results' = results
            /\ fetch_pc' = fetch_pc]_vars

C9_Witness ==
    /\ fetch_pc = "done"
    /\ Len(failures) = 2
    /\ Len(results) = 2
    /\ failures = <<"BND", "^SPX">>
    /\ outcome[1][1].raised = "HTTPError"
    /\ outcome[2][1].raised = "none"

\* --------------------------------------------------- properties of composing
InsertedKeys == {"SPX", "TBILL", "TBOND10", "BAACORP", "_ROLLING_RETURNS_"}
InstrumentFields ==
    {"name", "sector", "annualReturns", "quarterlyReturns", "stats", "dataPoints",
     "startYear", "endYear"}

\* C4: every key the composer inserts ends up holding exactly the newly
\* composed record, with none of the fields or values of a record the loaded
\* dataset held under that key, and every other loaded record is emitted
\* unchanged.
C4_LastWriterWins ==
    comp_pc = "done" =>
        LET out    == comprehensive_json[1]
            loaded == in_stock[1]
            frame  == in_csv[1]
        IN  /\ DOMAIN out = DOMAIN loaded \cup InsertedKeys
            /\ \A k \in DOMAIN loaded \ InsertedKeys : out[k] = loaded[k]
            /\ out["SPX"] =
                  [name                   |-> "S&P 500 Index",
                   sector                 |-> "Market Index",
                   annualReturns          |-> sp_total_returns,
                   quarterlyReturns       |-> sp_quarterly,
                   stats                  |-> sp_stats[1],
                   dataPoints             |-> Len(sp_total_returns),
                   startYear              |-> sp_total_returns[1].year,
                   endYear                |-> sp_total_returns[Len(sp_total_returns)].year,
                   annualReturnsPriceOnly |-> sp_price_returns]
            /\ \A b \in DOMAIN bond_types :
                  LET r == out[bond_types[b].ticker]
                  IN  /\ DOMAIN r = InstrumentFields
                      /\ r.name = bond_types[b].full_name
                      /\ r.sector = "Fixed Income"
                      /\ Len(r.annualReturns) = Len(frame.rows)
                      /\ \A i \in DOMAIN frame.rows :
                            /\ r.annualReturns[i].year = frame.rows[i].Date
                            /\ r.annualReturns[i].return =
                                  RoundDiv(frame.rows[i].cells[bond_types[b].col], 100)
                      /\ r.dataPoints = Len(frame.rows)
                      /\ r.stats.count = Len(frame.rows)
                      /\ r.startYear = frame.rows[1].Date
                      /\ r.endYear = frame.rows[Len(frame.rows)].Date
            /\ out["_ROLLING_RETURNS_"] =
                  [name             |-> "S&P 500 Rolling Returns",
                   description      |-> "Pre-calculated rolling returns for S&P 500",
                   periods          |-> rolling_data_total,
                   periodsTotal     |-> rolling_data_total,
                   periodsPriceOnly |-> rolling_data_price,
                   startYear        |-> sp_total_returns[1].year,
                   endYear          |-> sp_total_returns[Len(sp_total_returns)].year]

C4_Witness ==
    /\ comp_pc = "done"
    /\ DOMAIN in_stock[1] = {"GE", "SPX", "TBILL", "_ROLLING_RETURNS_"}
    /\ comprehensive_json[1]["GE"] = in_stock[1]["GE"]
    /\ comprehensive_json[1]["SPX"].name # in_stock[1]["SPX"].name
    /\ Len(comprehensive_json[1]["SPX"].annualReturns) = 2

\* the count field of every record that carries annual returns is the length
\* of its annualReturns
HasCount(d) ==
    \A k \in DOMAIN d :
        "annualReturns" \in DOMAIN d[k] => d[k].stats.count = Len(d[k].annualReturns)

\* the composition run ended in the statistics of an empty sequence: the
\* index's (no return computed from the sheet) or a bond's (no row in the csv)
StatsRaisedOnEmpty ==
    /\ comp_pc = "aborted"
    /\ df # None
    /\ \/ sp_total_returns = <<>>
       \/ sp_stats # None /\ df[1].rows = <<>>

\* C5 (as stated): in every record of the output datasets that carries annual
\* returns, stats.count is the length of annualReturns; and the statistics of
\* an empty annual-return sequence are None (no Stats object), in
\* calculate_stats and in the composer's two inline computations alike, never
\* an error.
C5_StatsCount ==
    /\ HasCount(main_stock_data)
    /\ stock_data_json # None => HasCount(stock_data_json[1])
    /\ comprehensive_json # None => HasCount(comprehensive_json[1])
    /\ called = "stats" =>
          /\ annual_returns = <<>> => (stats = None /\ raised = "none")
          /\ stats # None => stats[1].count = Len(annual_returns)
    /\ ~StatsRaisedOnEmpty

\* C6 (as stated): in the records of the index and of the three bonds every
\* annual return point has exactly four quarterly points <year>Q1..<year>Q4,
\* each the annual return divided by 4 and rounded, and quarterlyReturns holds
\* no other point.
C6_FourQuartersPerYear ==
    comp_pc = "done" =>
        \A t \in {"SPX", "TBILL", "TBOND10", "BAACORP"} :
            LET r == comprehensive_json[1][t]
            IN  /\ \A i \in DOMAIN r.annualReturns : \A q \in 1..4 :
                      /\ Cardinality({k \in DOMAIN r.quarterlyReturns :
                            r.quarterlyReturns[k].quarter = <<r.annualReturns[i].year, q>>}) = 1
                      /\ \A k \in DOMAIN r.quarterlyReturns :
                            r.quarterlyReturns[k].quarter = <<r.annualReturns[i].year, q>>
                                => r.quarterlyReturns[k].return =
                                       RoundDiv(r.annualReturns[i].return, 4)
                /\ \A k \in DOMAIN r.quarterlyReturns :
                      \E i \in DOMAIN r.annualReturns :
                          r.quarterlyReturns[k].quarter[1] = r.annualReturns[i].year

\* C10: the output document is written only once the three inputs are loaded
\* and the index, the bonds and the rolling returns are composed, and it is
\* what was composed; a run that fails at a load or while composing ends
\* with no output written.
MustFail ==
    \/ in_stock = None \/ in_xls = None \/ in_csv = None
    \/ Len(FilterRaw(in_xls[1])) < 2
    \/ in_csv[1].rows = <<>>
    \/ in_csv[1].columns # BondColumns
C10_OutputOnlyWhenComplete ==
    /\ comprehensive_json # None =>
          /\ comp_pc = "done"
          /\ in_stock # None /\ in_xls # None /\ in_csv # None
          /\ df_raw # None /\ df # None
          /\ InsertedKeys \subseteq DOMAIN comprehensive_json[1]
          /\ "annualReturnsPriceOnly" \in DOMAIN comprehensive_json[1]["SPX"]
          /\ comprehensive_json[1] = stock_data
    /\ comp_pc = "aborted" => comprehensive_json = None
    /\ (comp_pc # "idle" /\ MustFail) => comprehensive_json = None /\ comp_pc # "done"

C10_Witness ==
    /\ comp_pc = "aborted"
    /\ {"SPX", "TBILL", "TBOND10"} \subseteq DOMAIN stock_data
    /\ "BAACORP" \notin DOMAIN stock_data
    /\ in_stock # None /\ in_xls # None /\ in_csv # None
    /\ comprehensive_json = None

\* C11: main calls calculate_stats only on a list of at least 2 annual
\* returns, so the divisor n - 1 of the sample standard deviation is not zero
\* and the call does not raise; a ticker skipped for fewer than 252 prices or
\* fewer than 2 annual returns is skipped before the call; and every record
\* of the output has at least 2 annual return points, at least 252 data
\* points and a stats object.
StatsFields == {"mean", "stdDev", "min", "max", "count"}
WrittenRecordsComplete(d) ==
    \A k \in DOMAIN d :
        /\ Len(d[k].annualReturns) >= 2
        /\ d[k].dataPoints >= 252
        /\ DOMAIN d[k].stats = StatsFields
        /\ d[k].stats.count >= 2
C11_StatsOnlyOnTwoOrMore ==
    /\ stats_arg # None =>
          /\ Len(stats_arg[1]) >= 2
          /\ Len(stats_arg[1]) - 1 # 0
          /\ calculate_stats(stats_arg[1]).raised = "none"
          /\ calculate_stats(stats_arg[1]).value # None
    /\ WrittenRecordsComplete(main_stock_data)
    /\ stock_data_json # None => WrittenRecordsComplete(stock_data_json[1])

\* two tickers were skipped before the call and the one just visited went
\* through calculate_stats with two annual returns and was stored
C11_Witness ==
    /\ main_pc = "loop"
    /\ skipped = 2
    /\ processed = 1
    /\ stats_arg # None
    /\ Len(stats_arg[1]) = 2
    /\ main_stock_data[Tickers[ticker_idx - 1]].annualReturns = stats_arg[1]

====
